---- MODULE Spec2Model ----
(***************************************************************************)
(* Model of package health (fresh8/health): a ServiceCheck aggregates the  *)
(* health of registered dependencies.  The repository carries the package  *)
(* in several revisions; three of them are modelled, selected by the       *)
(* variable `variant`:                                                     *)
(*   V_Part000  src/unnamed/part_000      RWMutex, Healthy: true at init   *)
(*   V_HealthA  src/health.go:1-242       RWMutex, Healthy left zero       *)
(*   V_HealthB  src/health.go:244-474     no locking, Healthy left zero,   *)
(*                                        periodic loop started at init    *)
(* Goroutines are modelled as threads with a program counter; a probe      *)
(* (check func() bool) returns a nondeterministic boolean on every call.   *)
(* The remote helpers Check200Helper and Get are operators over the kinds  *)
(* of URL and the outcomes of the request.                                 *)
(***************************************************************************)
EXTENDS Integers, Sequences, FiniteSets, TLC

\* ------------------------------------------------------------------ bounds
MaxDeps == 2

\* --------------------------------------------------------------- constants
LevelSoft == 0
LevelHard == 1

V_Part000 == "part_000"
V_HealthA == "health.go:1-242"
V_HealthB == "health.go:244-474"
Variants == {V_Part000, V_HealthA, V_HealthB}

ErrNil == "nil"
ErrDependencyAlreadyRegistered == "dependent already registered"
ErrNoDependency == "no dependency registered"

NameTable == <<"a", "b", "c", "d", "e">>
Names == {NameTable[i] : i \in 1..MaxDeps}
Levels == {LevelSoft, LevelHard}

None == "none"
Per == "per"
WaitLoop == "wl"
WaitCaller == "wc"
Reader == "rd"
Loops == {Per, WaitLoop}
Registrants == {"r1", "r2"}
Threads == Loops \cup Registrants \cup {WaitCaller, Reader}

VARIABLES
    variant,        \* which revision of the package is running
    Healthy,        \* ServiceCheck.Healthy
    Dependencies,   \* ServiceCheck.Dependencies: sequence of Dependency records
    writer,         \* mu: the thread holding the exclusive lock, or None
    readers,        \* mu: the threads holding the shared lock
    pc,             \* position of every thread
    idx,            \* updateStatus / WriteStatus: index of the range loop (0 outside)
    cnt,            \* updateStatus / WriteStatus: length of the ranged slice (0 outside)
    probed,         \* per loop thread: probe results of its latest cycle, in order,
                    \* kept until the thread's first step after the cycle
    cycled,         \* TRUE once any aggregation cycle has started
    ctx,            \* WaitForDependencies context: "none", "open", "cancel", "timeout"
    becameTrue,     \* history: a cycle wrote Healthy = true while the context was open
    wasTrue,        \* history: Healthy was true at some moment the context was open
    ret,            \* value returned by WaitForDependencies / IsHealthy
    rname,          \* RegisterDependency argument name
    rlevel,         \* RegisterDependency argument level
    rseed,          \* RegisterDependency: result of the seeding probe call
    rerr,           \* RegisterDependency: returned error
    rcalls,         \* RegisterDependency: probe invocations made by the current call
    rop,            \* operation the reader thread is running
    body,           \* WriteStatus: the snapshot being serialized
    code,           \* HTTPHandler: status code written
    lname,          \* Dependency: argument name
    view,           \* Dependency: the returned *Dependency, as the index of the
                    \* record it points to (0 for nil)
    derr,           \* Dependency: returned error
    hreq,           \* Check200Helper / Get: the call in progress (helper, URL,
                    \* what the network does with the request)
    hres            \* Check200Helper / Get: the (bool, error) returned

vars == <<variant, Healthy, Dependencies, writer, readers, pc, idx, cnt, probed,
          cycled, ctx, becameTrue, wasTrue, ret, rname, rlevel, rseed, rerr, rcalls, rop,
          body, code, lname, view, derr, hreq, hres>>

svcVars == <<Healthy, Dependencies>>
lockVars == <<writer, readers>>
loopVars == <<idx, cnt, probed, cycled>>
waitVars == <<ctx, becameTrue, wasTrue>>
regVars == <<rname, rlevel, rseed, rerr, rcalls>>
lookVars == <<lname, view, derr>>
helperVars == <<hreq, hres>>
readVars == <<rop, body, code, lookVars, helperVars>>

\* ------------------------------------------------------------------ helpers

\* The package guards its state with s.mu in two of the three revisions.
Locked == variant # V_HealthB

\* InitialiseServiceCheck: the initial value of the Healthy field.
InitialHealthy(v) == v = V_Part000

\* InitialiseServiceCheck: health.go:244-474 calls check.startCheck() itself.
InitialPerPc(v) == IF v = V_HealthB THEN "update" ELSE "off"

\* A Lock that is granted whoever holds the lock.
CanLockAlways == TRUE

\* s.mu.Lock() can proceed.
CanLock == ~Locked \/ (writer = None /\ readers = {})

\* s.mu.RLock() can proceed.
CanRLock == ~Locked \/ writer = None

\* The duplicate scan with the comparison inverted.
IsRegisteredInverted(deps, name) == \E i \in 1..Len(deps) : deps[i].Name # name

\* RegisterDependency's duplicate scan.
IsRegistered(deps, name) == \E i \in 1..Len(deps) : deps[i].Name = name

\* The short-circuit test with the two levels mixed up.
HardFailedSoft(dep) == ~dep.Healthy /\ dep.Level = LevelSoft

\* The short-circuit test without the level.
HardFailedAnyLevel(dep) == ~dep.Healthy

\* updateStatus: the test that short-circuits the cycle.
HardFailed(dep) == ~dep.Healthy /\ dep.Level = LevelHard

\* A Done channel that only cancel() closes.
CtxDoneCancelOnly(c) == c = "cancel"

\* <-ctx.Done() is readable.
CtxDone(c) == c \in {"cancel", "timeout"}

\* Where a loop thread continues after updateStatus returns.
AfterUpdate(t) == IF t = WaitLoop THEN "gethealth" ELSE "sleep"

InCycle(t) == pc[t] \in {"range", "check"}

\* ------------------------------------------------- Check200Helper and Get
\* Errors of the libraries the helpers call.
ErrURLParse == "url: parse error"
ErrClientDo == "http: client.Do error"
ErrJSONDecode == "json: decode error"

\* URL strings by what the parsers and the client make of them:
\*   "absolute"  http://host/health  accepted by all, the request is sent
\*   "path"      /health             accepted by url.ParseRequestURI and by
\*                                   http.NewRequest; client.Do rejects it
\*                                   (unsupported protocol scheme)
\*   "relative"  health, or ""       rejected by url.ParseRequestURI,
\*                                   accepted by http.NewRequest; client.Do
\*                                   rejects it
\*   "invalid"   %zz                 rejected by both parsers
URLs == {"absolute", "path", "relative", "invalid"}
ParseRequestURIOk(u) == u \in {"absolute", "path"}
NewRequestOk(u) == u \in {"absolute", "path", "relative"}
SchemeSupported(u) == u = "absolute"

\* A JSON document is a sequence of members (key, type of the value, and the
\* value when it is a boolean); a body that is not JSON has valid = FALSE.
JSONMember(k, t, b) == [k |-> k, t |-> t, b |-> b]
NotJSON == [valid |-> FALSE, members |-> <<>>]

\* json.NewEncoder(w).Encode(s) of a ServiceCheck: the exported fields under
\* their json tags, in declaration order; a nil slice is encoded as null.
Encode(sc) ==
    [valid |-> TRUE,
     members |-> <<JSONMember("name", "string", FALSE),
                   JSONMember("healthy", "bool", sc.Healthy),
                   JSONMember("dependencies",
                              IF sc.Dependencies = <<>> THEN "null" ELSE "array",
                              FALSE)>>]

\* json.NewDecoder(body).Decode(&response) with response a ServiceCheck:
\* the member types the struct accepts under each tag (null leaves a field
\* as it is; unknown keys are skipped).
FieldTypes(k) ==
    IF k = "name" THEN {"string", "null"}
    ELSE IF k = "healthy" THEN {"bool", "null"}
    ELSE IF k = "dependencies" THEN {"array", "null"}
    ELSE {"string", "bool", "array", "null"}

DecodeOk(doc) ==
    /\ doc.valid
    /\ \A i \in 1..Len(doc.members) : doc.members[i].t \in FieldTypes(doc.members[i].k)

\* response.Healthy after a successful Decode: the zero value unless a
\* boolean member "healthy" set it (the last one counts).
DecodedHealthy(doc) ==
    LET set == {i \in 1..Len(doc.members) :
                    doc.members[i].k = "healthy" /\ doc.members[i].t = "bool"}
    IN  IF set = {} THEN FALSE
        ELSE doc.members[CHOOSE i \in set : \A j \in set : j <= i].b

\* The Service Checks a remote service may serialize.
ServiceChecks ==
    [Name : {"test"}, Healthy : BOOLEAN,
     Dependencies : {<<>>, <<[Name |-> "a", Healthy |-> FALSE, Level |-> LevelHard]>>}]

\* Response bodies: serialized Service Checks, {}, a lone healthy member,
\* healthy of the wrong type, healthy null, and a body that is not JSON.
Bodies ==
    {Encode(sc) : sc \in ServiceChecks}
    \cup {[valid |-> TRUE, members |-> <<>>],
          [valid |-> TRUE, members |-> <<JSONMember("healthy", "bool", TRUE)>>],
          [valid |-> TRUE, members |-> <<JSONMember("healthy", "string", FALSE)>>],
          [valid |-> TRUE, members |-> <<JSONMember("healthy", "null", FALSE)>>],
          NotJSON}

\* What the network does with a request that is sent: client.Do fails (no
\* connection, timeout), or a response arrives.
Statuses == {200, 204, 404, 500, 503}
Outcomes ==
    {[kind |-> "neterror", status |-> 0, body |-> NotJSON]}
    \cup [kind : {"response"}, status : Statuses, body : Bodies]

NoRequest ==
    [op |-> None, url |-> "", outcome |-> [kind |-> None, status |-> 0, body |-> NotJSON]]
NoResult == [ok |-> FALSE, err |-> ErrNil]

\* Get without its `if resp.StatusCode != http.StatusOK` test.
GetIgnoresStatus(u, o) ==
    IF ~NewRequestOk(u) THEN [ok |-> FALSE, err |-> ErrURLParse]
    ELSE IF ~SchemeSupported(u) \/ o.kind = "neterror"
    THEN [ok |-> FALSE, err |-> ErrClientDo]
    ELSE IF ~DecodeOk(o.body) THEN [ok |-> FALSE, err |-> ErrJSONDecode]
    ELSE [ok |-> DecodedHealthy(o.body), err |-> ErrNil]

Get(u, o) ==
    IF ~NewRequestOk(u) THEN [ok |-> FALSE, err |-> ErrURLParse]
    ELSE IF ~SchemeSupported(u) \/ o.kind = "neterror"
    THEN [ok |-> FALSE, err |-> ErrClientDo]
    ELSE IF o.status # 200 THEN [ok |-> FALSE, err |-> ErrNil]
    ELSE IF ~DecodeOk(o.body) THEN [ok |-> FALSE, err |-> ErrJSONDecode]
    ELSE [ok |-> DecodedHealthy(o.body), err |-> ErrNil]

Check200Helper(u, o) ==
    IF ~ParseRequestURIOk(u) THEN [ok |-> FALSE, err |-> ErrURLParse]
    ELSE IF ~SchemeSupported(u) \/ o.kind = "neterror"
    THEN [ok |-> FALSE, err |-> ErrClientDo]
    ELSE IF o.status # 200 THEN [ok |-> FALSE, err |-> ErrNil]
    ELSE [ok |-> TRUE, err |-> ErrNil]

\* --------------------------------------------------------------------- Init
Init ==
    /\ variant \in Variants
    /\ Healthy = InitialHealthy(variant)
    /\ Dependencies = <<>>
    /\ writer = None
    /\ readers = {}
    /\ pc = [t \in Threads |->
                IF t = Per THEN InitialPerPc(variant)
                ELSE IF t = WaitLoop THEN "off" ELSE "idle"]
    /\ idx = [t \in Loops \cup {Reader} |-> 0]
    /\ cnt = [t \in Loops \cup {Reader} |-> 0]
    /\ probed = [t \in Loops |-> <<>>]
    /\ cycled = FALSE
    /\ ctx = "none"
    /\ becameTrue = FALSE
    /\ wasTrue = FALSE
    /\ ret = [t \in {WaitCaller, Reader} |-> FALSE]
    /\ rname = [r \in Registrants |-> ""]
    /\ rlevel = [r \in Registrants |-> LevelSoft]
    /\ rseed = [r \in Registrants |-> FALSE]
    /\ rerr = [r \in Registrants |-> ErrNil]
    /\ rcalls = [r \in Registrants |-> 0]
    /\ rop = None
    /\ body = [healthy |-> FALSE, dependencies |-> <<>>]
    /\ code = 0
    /\ lname = ""
    /\ view = 0
    /\ derr = ErrNil
    /\ hreq = NoRequest
    /\ hres = NoResult

\* ------------------------------------------------------------- StartCheck
StartCheck ==
    /\ pc[Per] = "off"
    /\ pc' = [pc EXCEPT ![Per] = "update"]
    /\ UNCHANGED <<variant, svcVars, lockVars, loopVars, waitVars, ret, regVars, readVars>>

\* time.After(...) in either loop has fired.
Sleep(t) ==
    /\ pc[t] = "sleep"
    /\ pc' = [pc EXCEPT ![t] = "update"]
    /\ probed' = [probed EXCEPT ![t] = <<>>]
    /\ UNCHANGED <<variant, svcVars, lockVars, idx, cnt, cycled, waitVars, ret, regVars,
                   readVars>>

\* ------------------------------------------------------------ updateStatus
\* s.mu.Lock(); the range expression s.Dependencies is evaluated once.
UpdateLock(t) ==
    /\ pc[t] = "update"
    /\ CanLock
    /\ writer' = IF Locked THEN t ELSE writer
    /\ idx' = [idx EXCEPT ![t] = 1]
    /\ cnt' = [cnt EXCEPT ![t] = Len(Dependencies)]
    /\ probed' = [probed EXCEPT ![t] = <<>>]
    /\ cycled' = TRUE
    /\ pc' = [pc EXCEPT ![t] = "range"]
    /\ UNCHANGED <<variant, svcVars, readers, waitVars, ret, regVars, readVars>>

\* Next iteration: the probe of record idx is called; or the loop is over:
\* s.Healthy = true and the deferred Unlock runs.
UpdateRange(t) ==
    /\ pc[t] = "range"
    /\ IF idx[t] <= cnt[t]
       THEN /\ pc' = [pc EXCEPT ![t] = "check"]
            /\ UNCHANGED <<Healthy, writer, becameTrue, wasTrue, idx, cnt>>
       ELSE /\ Healthy' = TRUE
            /\ writer' = IF Locked THEN None ELSE writer
            /\ becameTrue' = (becameTrue \/ ctx = "open")
            /\ wasTrue' = (wasTrue \/ ctx = "open")
            /\ idx' = [idx EXCEPT ![t] = 0]
            /\ cnt' = [cnt EXCEPT ![t] = 0]
            /\ pc' = [pc EXCEPT ![t] = AfterUpdate(t)]
    /\ UNCHANGED <<variant, Dependencies, readers, probed, cycled, ctx, ret, regVars,
                   readVars>>

\* UpdateCheck whose return on a failing hard dependency leaves the lock
\* held (no deferred Unlock).
UpdateCheckKeepsLock(t, b) ==
    /\ pc[t] = "check"
    /\ Dependencies' = [Dependencies EXCEPT ![idx[t]].Healthy = b]
    /\ probed' = [probed EXCEPT ![t] = Append(@, b)]
    /\ IF HardFailed(Dependencies'[idx[t]])
       THEN /\ Healthy' = FALSE
            /\ idx' = [idx EXCEPT ![t] = 0]
            /\ cnt' = [cnt EXCEPT ![t] = 0]
            /\ pc' = [pc EXCEPT ![t] = AfterUpdate(t)]
            /\ UNCHANGED writer
       ELSE /\ idx' = [idx EXCEPT ![t] = @ + 1]
            /\ pc' = [pc EXCEPT ![t] = "range"]
            /\ UNCHANGED <<Healthy, writer, cnt>>
    /\ UNCHANGED <<variant, readers, cycled, waitVars, ret, regVars, readVars>>

\* The probe returns b: dependency.Healthy = b; a failing hard dependency
\* sets s.Healthy = false and returns (deferred Unlock).
UpdateCheck(t, b) ==
    /\ pc[t] = "check"
    /\ Dependencies' = [Dependencies EXCEPT ![idx[t]].Healthy = b]
    /\ probed' = [probed EXCEPT ![t] = Append(@, b)]
    /\ IF HardFailed(Dependencies'[idx[t]])
       THEN /\ Healthy' = FALSE
            /\ writer' = IF Locked THEN None ELSE writer
            /\ idx' = [idx EXCEPT ![t] = 0]
            /\ cnt' = [cnt EXCEPT ![t] = 0]
            /\ pc' = [pc EXCEPT ![t] = AfterUpdate(t)]
       ELSE /\ idx' = [idx EXCEPT ![t] = @ + 1]
            /\ pc' = [pc EXCEPT ![t] = "range"]
            /\ UNCHANGED <<Healthy, writer, cnt>>
    /\ UNCHANGED <<variant, readers, cycled, waitVars, ret, regVars, readVars>>

\* ------------------------------------------------------------- getHealth
\* s.mu.RLock() of getHealth (health.go:244-474 reads s.Healthy unguarded).
GetHealthRLock(t) ==
    /\ pc[t] = "gethealth"
    /\ CanRLock
    /\ readers' = IF Locked THEN readers \cup {t} ELSE readers
    /\ pc' = [pc EXCEPT ![t] = "healthread"]
    /\ probed' = [l \in Loops |-> IF l = t THEN <<>> ELSE probed[l]]
    /\ UNCHANGED <<variant, svcVars, writer, idx, cnt, cycled, waitVars, ret, regVars,
                   readVars>>

\* ---------------------------------------------------- WaitForDependencies
\* context.WithTimeout, go func() {...}(), then the caller blocks on ctx.Done().
WaitForDependencies ==
    /\ pc[WaitCaller] = "idle"
    /\ pc[WaitLoop] = "off"
    /\ ctx' = "open"
    /\ wasTrue' = Healthy
    /\ pc' = [pc EXCEPT ![WaitCaller] = "wait", ![WaitLoop] = "update"]
    /\ UNCHANGED <<variant, svcVars, lockVars, loopVars, becameTrue, ret, regVars, readVars>>

\* The deadline of the context passes.
Timeout ==
    /\ ctx = "open"
    /\ ctx' = "timeout"
    /\ UNCHANGED <<variant, svcVars, lockVars, pc, loopVars, becameTrue, wasTrue, ret, regVars,
                   readVars>>

\* WaitLoopRead for a loop that also breaks once the context is done.
WaitLoopReadStopsOnDone ==
    /\ pc[WaitLoop] = "healthread"
    /\ readers' = readers \ {WaitLoop}
    /\ IF Healthy \/ CtxDone(ctx)
       THEN /\ ctx' = IF ctx = "open" THEN "cancel" ELSE ctx
            /\ pc' = [pc EXCEPT ![WaitLoop] = "exit"]
       ELSE /\ pc' = [pc EXCEPT ![WaitLoop] = "sleep"]
            /\ UNCHANGED ctx
    /\ UNCHANGED <<variant, svcVars, writer, loopVars, becameTrue, wasTrue, ret, regVars,
                   readVars>>

\* The wait loop's `if s.getHealth() { cancel(); break }`, else time.After.
WaitLoopRead ==
    /\ pc[WaitLoop] = "healthread"
    /\ readers' = readers \ {WaitLoop}
    /\ IF Healthy
       THEN /\ ctx' = IF ctx = "open" THEN "cancel" ELSE ctx
            /\ pc' = [pc EXCEPT ![WaitLoop] = "exit"]
       ELSE /\ pc' = [pc EXCEPT ![WaitLoop] = "sleep"]
            /\ UNCHANGED ctx
    /\ UNCHANGED <<variant, svcVars, writer, loopVars, becameTrue, wasTrue, ret, regVars,
                   readVars>>

\* <-ctx.Done() returns in the caller.
WaitUnblock ==
    /\ pc[WaitCaller] = "wait"
    /\ CtxDone(ctx)
    /\ pc' = [pc EXCEPT ![WaitCaller] = "gethealth"]
    /\ UNCHANGED <<variant, svcVars, lockVars, loopVars, waitVars, ret, regVars, readVars>>

\* return s.getHealth()
WaitReturn ==
    /\ pc[WaitCaller] = "healthread"
    /\ readers' = readers \ {WaitCaller}
    /\ ret' = [ret EXCEPT ![WaitCaller] = Healthy]
    /\ pc' = [pc EXCEPT ![WaitCaller] = "returned"]
    /\ UNCHANGED <<variant, svcVars, writer, loopVars, waitVars, regVars, readVars>>

\* ----------------------------------------------------- RegisterDependency
\* Calls in flight that will append a record.
Appending == {r \in Registrants : pc[r] \in {"seed", "lock", "append"}}

\* RegisterDependency without its `if name == ""` test.
RegisterDependencyNoNameTest(r, name, level) ==
    /\ pc[r] = "idle"
    /\ rname' = [rname EXCEPT ![r] = name]
    /\ rlevel' = [rlevel EXCEPT ![r] = level]
    /\ IF IsRegistered(Dependencies, name)
       THEN /\ rerr' = [rerr EXCEPT ![r] = ErrDependencyAlreadyRegistered]
            /\ rcalls' = [rcalls EXCEPT ![r] = 0]
            /\ pc' = [pc EXCEPT ![r] = "ret"]
       ELSE /\ Len(Dependencies) + Cardinality(Appending) < MaxDeps
            /\ rerr' = [rerr EXCEPT ![r] = ErrNil]
            /\ rcalls' = [rcalls EXCEPT ![r] = 1]
            /\ pc' = [pc EXCEPT ![r] = "seed"]
    /\ UNCHANGED <<variant, svcVars, lockVars, loopVars, waitVars, ret, rseed, readVars>>

\* Entry: the empty-name test and the duplicate scan (both without the lock);
\* a call that passes both invokes check() to seed Healthy.
RegisterDependency(r, name, level) ==
    /\ pc[r] = "idle"
    /\ rname' = [rname EXCEPT ![r] = name]
    /\ rlevel' = [rlevel EXCEPT ![r] = level]
    /\ IF name = ""
       THEN /\ rerr' = [rerr EXCEPT ![r] = ErrNoDependency]
            /\ rcalls' = [rcalls EXCEPT ![r] = 0]
            /\ pc' = [pc EXCEPT ![r] = "ret"]
       ELSE IF IsRegistered(Dependencies, name)
       THEN /\ rerr' = [rerr EXCEPT ![r] = ErrDependencyAlreadyRegistered]
            /\ rcalls' = [rcalls EXCEPT ![r] = 0]
            /\ pc' = [pc EXCEPT ![r] = "ret"]
       ELSE /\ Len(Dependencies) + Cardinality(Appending) < MaxDeps
            /\ rerr' = [rerr EXCEPT ![r] = ErrNil]
            /\ rcalls' = [rcalls EXCEPT ![r] = 1]
            /\ pc' = [pc EXCEPT ![r] = "seed"]
    /\ UNCHANGED <<variant, svcVars, lockVars, loopVars, waitVars, ret, rseed, readVars>>

\* The seeding probe call returns b.
RegisterSeed(r, b) ==
    /\ pc[r] = "seed"
    /\ rseed' = [rseed EXCEPT ![r] = b]
    /\ pc' = [pc EXCEPT ![r] = "lock"]
    /\ UNCHANGED <<variant, svcVars, lockVars, loopVars, waitVars, ret, rname, rlevel,
                   rerr, rcalls, readVars>>

\* s.mu.Lock()
RegisterLock(r) ==
    /\ pc[r] = "lock"
    /\ CanLock
    /\ writer' = IF Locked THEN r ELSE writer
    /\ pc' = [pc EXCEPT ![r] = "append"]
    /\ UNCHANGED <<variant, svcVars, readers, loopVars, waitVars, ret, regVars, readVars>>

\* RegisterAppend that also sets s.Healthy = false when the record appended
\* is a Hard one seeded unhealthy.
RegisterAppendPropagates(r) ==
    /\ pc[r] = "append"
    /\ Dependencies' = Append(Dependencies,
                              [Name |-> rname[r], Healthy |-> rseed[r],
                               Level |-> rlevel[r], check |-> r])
    /\ Healthy' = IF ~rseed[r] /\ rlevel[r] = LevelHard THEN FALSE ELSE Healthy
    /\ writer' = IF Locked THEN None ELSE writer
    /\ pc' = [pc EXCEPT ![r] = "ret"]
    /\ UNCHANGED <<variant, readers, loopVars, waitVars, ret, regVars, readVars>>

\* RegisterAppend with the record's Healthy set to true instead of check().
RegisterAppendHealthy(r) ==
    /\ pc[r] = "append"
    /\ Dependencies' = Append(Dependencies,
                              [Name |-> rname[r], Healthy |-> TRUE,
                               Level |-> rlevel[r], check |-> r])
    /\ writer' = IF Locked THEN None ELSE writer
    /\ pc' = [pc EXCEPT ![r] = "ret"]
    /\ UNCHANGED <<variant, Healthy, readers, loopVars, waitVars, ret, regVars, readVars>>

\* s.Dependencies = append(s.Dependencies, dep); s.mu.Unlock(); return nil
RegisterAppend(r) ==
    /\ pc[r] = "append"
    /\ Dependencies' = Append(Dependencies,
                              [Name |-> rname[r], Healthy |-> rseed[r],
                               Level |-> rlevel[r], check |-> r])
    /\ writer' = IF Locked THEN None ELSE writer
    /\ pc' = [pc EXCEPT ![r] = "ret"]
    /\ UNCHANGED <<variant, Healthy, readers, loopVars, waitVars, ret, regVars, readVars>>

\* The caller has taken the result; it may call again.
RegisterReturn(r) ==
    /\ pc[r] = "ret"
    /\ pc' = [pc EXCEPT ![r] = "idle"]
    /\ rname' = [rname EXCEPT ![r] = ""]
    /\ rlevel' = [rlevel EXCEPT ![r] = LevelSoft]
    /\ rseed' = [rseed EXCEPT ![r] = FALSE]
    /\ rerr' = [rerr EXCEPT ![r] = ErrNil]
    /\ rcalls' = [rcalls EXCEPT ![r] = 0]
    /\ UNCHANGED <<variant, svcVars, lockVars, loopVars, waitVars, ret, readVars>>

\* ------------------------------------- IsHealthy, WriteStatus, HTTPHandler
StatusOK == 200
StatusServiceUnavailable == 503

IsHealthy ==
    /\ pc[Reader] = "idle"
    /\ rop' = "IsHealthy"
    /\ pc' = [pc EXCEPT ![Reader] = "gethealth"]
    /\ UNCHANGED <<variant, svcVars, lockVars, loopVars, waitVars, ret, regVars, body, code, lookVars, helperVars>>

HTTPHandler ==
    /\ pc[Reader] = "idle"
    /\ rop' = "HTTPHandler"
    /\ pc' = [pc EXCEPT ![Reader] = "gethealth"]
    /\ UNCHANGED <<variant, svcVars, lockVars, loopVars, waitVars, ret, regVars, body, code, lookVars, helperVars>>

WriteStatus ==
    /\ pc[Reader] = "idle"
    /\ rop' = "WriteStatus"
    /\ pc' = [pc EXCEPT ![Reader] = "ws"]
    /\ UNCHANGED <<variant, svcVars, lockVars, loopVars, waitVars, ret, regVars, body, code, lookVars, helperVars>>

\* ReaderRead with the two status codes of HTTPHandler exchanged.
ReaderReadSwapped ==
    /\ pc[Reader] = "healthread"
    /\ readers' = readers \ {Reader}
    /\ IF rop = "IsHealthy"
       THEN /\ ret' = [ret EXCEPT ![Reader] = Healthy]
            /\ pc' = [pc EXCEPT ![Reader] = "ret"]
            /\ UNCHANGED code
       ELSE /\ code' = IF Healthy THEN StatusServiceUnavailable ELSE StatusOK
            /\ pc' = [pc EXCEPT ![Reader] = "ws"]
            /\ UNCHANGED ret
    /\ UNCHANGED <<variant, svcVars, writer, loopVars, waitVars, regVars, rop, body, lookVars, helperVars>>

\* getHealth returns to IsHealthy (result returned) or to HTTPHandler
\* (w.WriteHeader(200 or 503), then s.WriteStatus(w)).
ReaderRead ==
    /\ pc[Reader] = "healthread"
    /\ readers' = readers \ {Reader}
    /\ IF rop = "IsHealthy"
       THEN /\ ret' = [ret EXCEPT ![Reader] = Healthy]
            /\ pc' = [pc EXCEPT ![Reader] = "ret"]
            /\ UNCHANGED code
       ELSE /\ code' = IF Healthy THEN StatusOK ELSE StatusServiceUnavailable
            /\ pc' = [pc EXCEPT ![Reader] = "ws"]
            /\ UNCHANGED ret
    /\ UNCHANGED <<variant, svcVars, writer, loopVars, waitVars, regVars, rop, body, lookVars, helperVars>>

\* json.NewEncoder(w).Encode(s) takes no lock: it reads s.Healthy and the
\* slice s.Dependencies, then every record the slice points to, one by one.
WriteStatusBegin ==
    /\ pc[Reader] = "ws"
    /\ body' = [healthy |-> Healthy, dependencies |-> <<>>]
    /\ idx' = [idx EXCEPT ![Reader] = 1]
    /\ cnt' = [cnt EXCEPT ![Reader] = Len(Dependencies)]
    /\ pc' = [pc EXCEPT ![Reader] = "ws_dep"]
    /\ UNCHANGED <<variant, svcVars, lockVars, probed, cycled, waitVars, ret, regVars,
                   rop, code, lookVars, helperVars>>

WriteStatusDep ==
    /\ pc[Reader] = "ws_dep"
    /\ IF idx[Reader] <= cnt[Reader]
       THEN /\ body' = [body EXCEPT !.dependencies =
                          Append(@, [Name |-> Dependencies[idx[Reader]].Name,
                                     Healthy |-> Dependencies[idx[Reader]].Healthy,
                                     Level |-> Dependencies[idx[Reader]].Level])]
            /\ idx' = [idx EXCEPT ![Reader] = @ + 1]
            /\ UNCHANGED pc
       ELSE /\ pc' = [pc EXCEPT ![Reader] = "ret"]
            /\ UNCHANGED <<body, idx>>
    /\ UNCHANGED <<variant, svcVars, lockVars, cnt, probed, cycled, waitVars, ret,
                   regVars, rop, code, lookVars, helperVars>>

\* The caller has taken the result; it may call again.
ReaderReturn ==
    /\ pc[Reader] = "ret"
    /\ pc' = [pc EXCEPT ![Reader] = "idle"]
    /\ rop' = None
    /\ body' = [healthy |-> FALSE, dependencies |-> <<>>]
    /\ code' = 0
    /\ ret' = [ret EXCEPT ![Reader] = FALSE]
    /\ idx' = [idx EXCEPT ![Reader] = 0]
    /\ cnt' = [cnt EXCEPT ![Reader] = 0]
    /\ lname' = ""
    /\ view' = 0
    /\ derr' = ErrNil
    /\ UNCHANGED <<variant, svcVars, lockVars, probed, cycled, waitVars, regVars, helperVars>>

\* -------------------------------------------------------------- Dependency
\* The range loop of Dependency: the index of the first record named name,
\* 0 when the loop ends without a match.
FindDependency(deps, name) ==
    IF \E i \in 1..Len(deps) : deps[i].Name = name
    THEN CHOOSE i \in 1..Len(deps) :
            /\ deps[i].Name = name
            /\ \A j \in 1..(i - 1) : deps[j].Name # name
    ELSE 0

Dependency(name) ==
    /\ pc[Reader] = "idle"
    /\ rop' = "Dependency"
    /\ lname' = name
    /\ pc' = [pc EXCEPT ![Reader] = "dep_rlock"]
    /\ UNCHANGED <<variant, svcVars, lockVars, loopVars, waitVars, ret, regVars, body, code,
                   view, derr, helperVars>>

\* s.mu.RLock(); defer s.mu.RUnlock()
DependencyRLock ==
    /\ pc[Reader] = "dep_rlock"
    /\ CanRLock
    /\ readers' = IF Locked THEN readers \cup {Reader} ELSE readers
    /\ pc' = [pc EXCEPT ![Reader] = "dep_scan"]
    /\ UNCHANGED <<variant, svcVars, writer, loopVars, waitVars, ret, regVars, readVars>>

\* for _, dependency := range s.Dependencies { if dependency.Name == name
\* { return dependency, nil } }; return nil, ErrNoDependency.  The value
\* returned is the pointer held in the slice, not a copy of the record.
DependencyScan ==
    /\ pc[Reader] = "dep_scan"
    /\ view' = FindDependency(Dependencies, lname)
    /\ derr' = IF FindDependency(Dependencies, lname) = 0 THEN ErrNoDependency ELSE ErrNil
    /\ readers' = readers \ {Reader}
    /\ pc' = [pc EXCEPT ![Reader] = "ret"]
    /\ UNCHANGED <<variant, svcVars, writer, loopVars, waitVars, ret, regVars, rop, body,
                   code, lname, helperVars>>

\* The caller of Dependency assigns to the exported field Level of the value
\* it was given (dep.Level = level): the value is the registry's own record.
ViewWriteLevel(level) ==
    /\ pc[Reader] = "ret"
    /\ rop = "Dependency"
    /\ view # 0
    /\ Dependencies[view].Level # level
    /\ Dependencies' = [Dependencies EXCEPT ![view].Level = level]
    /\ UNCHANGED <<variant, Healthy, lockVars, pc, loopVars, waitVars, ret, regVars, readVars>>

\* ------------------------------------------- calls of the remote helpers
HelperFrame ==
    UNCHANGED <<variant, svcVars, lockVars, pc, loopVars, waitVars, ret, regVars, rop, body,
                code, lookVars>>

Check200HelperCall(u, o) ==
    /\ hreq.op = None
    /\ hreq' = [op |-> "Check200Helper", url |-> u, outcome |-> o]
    /\ hres' = Check200Helper(u, o)
    /\ HelperFrame

GetCall(u, o) ==
    /\ hreq.op = None
    /\ hreq' = [op |-> "Get", url |-> u, outcome |-> o]
    /\ hres' = Get(u, o)
    /\ HelperFrame

\* The caller has taken the result; it may call again.
HelperReturn ==
    /\ hreq.op # None
    /\ hreq' = NoRequest
    /\ hres' = NoResult
    /\ HelperFrame

HelperStep ==
    \/ \E u \in URLs, o \in Outcomes : Check200HelperCall(u, o)
    \/ \E u \in URLs, o \in Outcomes : GetCall(u, o)
    \/ HelperReturn

\* ------------------------------------------------------------ specifications
LoopStep(t) ==
    \/ Sleep(t)
    \/ UpdateLock(t)
    \/ UpdateRange(t)
    \/ \E b \in BOOLEAN : UpdateCheck(t, b)

RegisterCall(r) ==
    \E name \in Names \cup {""}, level \in Levels : RegisterDependency(r, name, level)

RegisterRest(r) ==
    \/ \E b \in BOOLEAN : RegisterSeed(r, b)
    \/ RegisterLock(r)
    \/ RegisterAppend(r)
    \/ RegisterReturn(r)

RegisterStep(r) == RegisterCall(r) \/ RegisterRest(r)

WaitStep ==
    \/ WaitForDependencies
    \/ Timeout
    \/ GetHealthRLock(WaitLoop)
    \/ WaitLoopRead
    \/ WaitUnblock
    \/ GetHealthRLock(WaitCaller)
    \/ WaitReturn

LookupStep ==
    \/ \E name \in Names \cup {""} : Dependency(name)
    \/ DependencyRLock
    \/ DependencyScan
    \/ ReaderReturn

ReaderStep ==
    \/ IsHealthy
    \/ HTTPHandler
    \/ WriteStatus
    \/ GetHealthRLock(Reader)
    \/ ReaderRead
    \/ WriteStatusBegin
    \/ WriteStatusDep
    \/ ReaderReturn

Next ==
    \/ StartCheck
    \/ \E t \in Loops : LoopStep(t)
    \/ \E r \in Registrants : RegisterStep(r)
    \/ WaitStep
    \/ ReaderStep
    \/ LookupStep
    \/ \E level \in Levels : ViewWriteLevel(level)
    \/ HelperStep

Spec == Init /\ [][Next]_vars

\* The revision of src/unnamed/part_000 alone.
InitPart000 == Init /\ variant = V_Part000

\* Documented usage (InitialiseServiceCheck: "start the check ... once all
\* dependencies are registered"): registrations are called before the first
\* cycle; then both loops and a WaitForDependencies caller run.
NextWait ==
    \/ StartCheck
    \/ \E t \in Loops : LoopStep(t)
    \/ (~cycled /\ RegisterCall("r1"))
    \/ RegisterRest("r1")
    \/ WaitStep

SpecWait == InitPart000 /\ [][NextWait]_vars

\* Documented usage, strictly: every RegisterDependency call has returned
\* before StartCheck and WaitForDependencies are called.
NextUse ==
    \/ (pc["r1"] = "idle" /\ StartCheck)
    \/ \E t \in Loops : LoopStep(t)
    \/ (pc[Per] = "off" /\ ctx = "none" /\ RegisterCall("r1"))
    \/ RegisterRest("r1")
    \/ (pc["r1"] = "idle" /\ WaitForDependencies)
    \/ Timeout
    \/ GetHealthRLock(WaitLoop)
    \/ WaitLoopRead
    \/ WaitUnblock
    \/ GetHealthRLock(WaitCaller)
    \/ WaitReturn

SpecUse == InitPart000 /\ [][NextUse]_vars

\* SpecUse with the scheduling the runtime provides: every probe call returns
\* and every runnable goroutine runs (WF on each goroutine's steps), the
\* context's timer fires (WF on Timeout), and a reader blocked in RLock is
\* admitted when the writer ahead of it unlocks (SF on the caller's RLock:
\* sync.RWMutex releases all waiting readers on Unlock).
FairSpecUse ==
    /\ SpecUse
    /\ \A t \in Loops : WF_vars(LoopStep(t))
    /\ WF_vars(GetHealthRLock(WaitLoop))
    /\ WF_vars(WaitLoopRead)
    /\ WF_vars(Timeout)
    /\ WF_vars(WaitUnblock)
    /\ SF_vars(GetHealthRLock(WaitCaller))
    /\ WF_vars(WaitReturn)

\* NextWait over all three revisions.
SpecLoops == Init /\ [][NextWait]_vars

\* The periodic loop, one registering goroutine and a reader.
NextRead ==
    \/ StartCheck
    \/ LoopStep(Per)
    \/ RegisterStep("r1")
    \/ ReaderStep

SpecRead == Init /\ [][NextRead]_vars

\* NextRead for the revision of src/unnamed/part_000 alone.
SpecSnap == InitPart000 /\ [][NextRead]_vars

\* The periodic loop and two goroutines registering concurrently.
NextReg ==
    \/ StartCheck
    \/ LoopStep(Per)
    \/ \E r \in Registrants : RegisterStep(r)

SpecReg == Init /\ [][NextReg]_vars

\* The periodic loop and one registering goroutine.
NextCycle ==
    \/ StartCheck
    \/ LoopStep(Per)
    \/ RegisterStep("r1")

SpecCycle == Init /\ [][NextCycle]_vars

\* The periodic loop, one registering goroutine and a goroutine calling
\* Dependency, in the revision of src/unnamed/part_000.
NextLook ==
    \/ StartCheck
    \/ LoopStep(Per)
    \/ RegisterStep("r1")
    \/ LookupStep

SpecLook == InitPart000 /\ [][NextLook]_vars

\* NextLook with two goroutines registering concurrently.
NextLookReg ==
    \/ StartCheck
    \/ LoopStep(Per)
    \/ \E r \in Registrants : RegisterStep(r)
    \/ LookupStep

SpecLookReg == InitPart000 /\ [][NextLookReg]_vars

\* The periodic loop and one registering goroutine in the revision of
\* src/unnamed/part_000, with the scheduling the runtime provides: every probe
\* call returns and the loop's goroutine runs when it can (WF on its steps
\* outside Lock), its timer fires (Sleep), a goroutine holding the lock
\* releases it (WF on RegisterAppend), and a goroutine blocked in Lock gets
\* the lock when it is free again and again (SF on UpdateLock: sync.RWMutex
\* does not starve a writer).
FairSpecCycle ==
    /\ InitPart000 /\ [][NextCycle]_vars
    /\ WF_vars(Sleep(Per))
    /\ SF_vars(UpdateLock(Per))
    /\ WF_vars(UpdateRange(Per))
    /\ WF_vars(\E b \in BOOLEAN : UpdateCheck(Per, b))
    /\ WF_vars(RegisterAppend("r1"))

\* Documented usage with an HTTP server: the registrations are made, then
\* StartCheck is called; requests to HTTPHandler arrive at any time.
NextHTTP ==
    \/ (pc["r1"] = "idle" /\ StartCheck)
    \/ LoopStep(Per)
    \/ (pc[Per] = "off" /\ RegisterCall("r1"))
    \/ RegisterRest("r1")
    \/ HTTPHandler
    \/ GetHealthRLock(Reader)
    \/ ReaderRead
    \/ WriteStatusBegin
    \/ WriteStatusDep
    \/ ReaderReturn

SpecHTTP == InitPart000 /\ [][NextHTTP]_vars

\* NextLook with a caller of Dependency that writes to the value returned.
NextView ==
    \/ NextLook
    \/ \E level \in Levels : ViewWriteLevel(level)

SpecView == InitPart000 /\ [][NextView]_vars

\* Calls of Check200Helper and Get with every URL and every outcome.
SpecRemote == InitPart000 /\ [][HelperStep]_vars

\* NextCycle for the revision of src/unnamed/part_000 alone.
SpecCycle000 == InitPart000 /\ [][NextCycle]_vars

\* The periodic loop and one client goroutine that calls the exported
\* operations of the Service Check one after another.
NextClient ==
    \/ StartCheck
    \/ LoopStep(Per)
    \/ (pc[Reader] = "idle" /\ RegisterCall("r1"))
    \/ RegisterRest("r1")
    \/ (pc["r1"] = "idle" /\ (IsHealthy \/ HTTPHandler \/ WriteStatus))
    \/ (pc["r1"] = "idle" /\ \E name \in Names \cup {""} : Dependency(name))
    \/ GetHealthRLock(Reader)
    \/ ReaderRead
    \/ WriteStatusBegin
    \/ WriteStatusDep
    \/ DependencyRLock
    \/ DependencyScan
    \/ ReaderReturn

SpecClient == Init /\ [][NextClient]_vars

\* SpecUse with goroutines that run when they can, holders of the lock that
\* release it, and a lock that does not starve the wait loop: blocked in
\* Lock or RLock, it gets the lock when the lock is free again and again
\* (sync.RWMutex hands the lock to a writer that has waited, and admits
\* waiting readers when a writer unlocks).
FairSpecLock ==
    /\ SpecUse
    /\ \A t \in Loops : WF_vars(LoopStep(t))
    /\ WF_vars(WaitLoopRead)
    /\ WF_vars(WaitReturn)
    /\ SF_vars(UpdateLock(WaitLoop))
    /\ SF_vars(GetHealthRLock(WaitLoop))

\* NextClient with a WaitForDependencies caller and its loop, in the revision
\* of src/unnamed/part_000.
NextBlock ==
    \/ NextClient
    \/ LoopStep(WaitLoop)
    \/ WaitStep

SpecBlock == InitPart000 /\ [][NextBlock]_vars

\* The two revisions whose updateStatus takes the lock.
InitLocked == Init /\ variant \in {V_Part000, V_HealthA}

\* NextCycle for the revisions with the lock.
SpecCycleLocked == InitLocked /\ [][NextCycle]_vars

\* Both loops and a registering goroutine, for the revisions with the lock.
SpecLoopsLocked == InitLocked /\ [][NextWait]_vars

\* ================================================================== claims

\* Thread t's updateStatus returns in this step.
CycleEnds(t) == pc[t] \in {"range", "check"} /\ pc'[t] \notin {"range", "check"}

\* C1: whenever an aggregation cycle completes in which the probe of at least
\* one Hard dependency returned false, the aggregate Healthy is false at that
\* moment, whatever it was before and whatever the other probes returned.
C1_HardFailureMakesUnhealthy ==
    [][\A t \in Loops :
         (/\ CycleEnds(t)
          /\ \E i \in 1..Len(probed'[t]) :
                Dependencies[i].Level = LevelHard /\ ~probed'[t][i])
         => ~Healthy']_vars

\* A cycle has just ended on a failing Hard record after a passing probe.
C1_Witness ==
    /\ pc[Per] = "sleep"
    /\ Len(probed[Per]) = 2
    /\ probed[Per][1]
    /\ ~probed[Per][2]
    /\ Dependencies[2].Level = LevelHard
    /\ ~Healthy

\* C2: whenever an aggregation cycle completes in which every Hard
\* dependency's probe returned true (the empty registry included), the
\* aggregate Healthy is true at that moment, whatever the Soft probes
\* returned and whatever the aggregate was before.
C2_HardAllPassMakesHealthy ==
    [][\A t \in Loops :
         (/\ CycleEnds(t)
          /\ \A i \in 1..Len(probed'[t]) :
                Dependencies[i].Level = LevelHard => probed'[t][i])
         => Healthy']_vars

\* A cycle has just ended healthy although a Soft probe returned false.
C2_Witness ==
    /\ pc[Per] = "sleep"
    /\ Len(probed[Per]) = 2
    /\ \E i, j \in 1..2 :
          /\ Dependencies[i].Level = LevelSoft /\ ~probed[Per][i]
          /\ Dependencies[j].Level = LevelHard /\ probed[Per][j]
    /\ Healthy

\* C3: the registry never holds two records with the same name.
C3_UniqueNames ==
    \A i, j \in 1..Len(Dependencies) :
        i # j => Dependencies[i].Name # Dependencies[j].Name

\* C4: WaitForDependencies returns true if a cycle made the aggregate true
\* while the timeout had not fired, and returns false if the aggregate was
\* never true between the call and the timeout.
C4_ReturnsHealthBeforeTimeout ==
    pc[WaitCaller] = "returned" =>
        /\ becameTrue => ret[WaitCaller]
        /\ ~wasTrue => ~ret[WaitCaller]

\* C5: the value WaitForDependencies returns is decided by what unblocked the
\* caller: true after the loop's cancel(), false after the timeout.
C5_ReturnFollowsUnblockCause ==
    pc[WaitCaller] = "returned" => (ret[WaitCaller] <=> ctx = "cancel")

\* C6: every call of WaitForDependencies returns.
C6_WaitReturns == (pc[WaitCaller] = "wait") ~> (pc[WaitCaller] = "returned")

\* The caller has returned false after the timeout, the aggregate never
\* having been true, while the wait loop goes on and holds the lock again.
C6_Witness ==
    /\ pc[WaitCaller] = "returned"
    /\ ctx = "timeout"
    /\ ~wasTrue
    /\ ~ret[WaitCaller]
    /\ writer = WaitLoop

\* C7: while WriteStatus is between its first and its last read of the
\* Service Check, no aggregation cycle is in progress and no record is being
\* appended, so the snapshot's values all come from one state.
C7_SnapshotFromOneState ==
    (pc[Reader] = "ws_dep" /\ idx[Reader] <= cnt[Reader]) =>
        /\ \A t \in Loops : ~InCycle(t)
        /\ \A r \in Registrants : pc[r] # "append"

\* A finished snapshot that no single state between cycles can produce: the
\* aggregate read as false beside records that all read as healthy.
C7_TornSnapshot ==
    /\ pc[Reader] = "ret"
    /\ Len(body.dependencies) > 0
    /\ ~body.healthy
    /\ \A i \in 1..Len(body.dependencies) : body.dependencies[i].Healthy

\* C8: at most one aggregation cycle is in progress at any time, and a cycle
\* in progress holds the exclusive lock, no reader holding the shared lock.
C8_CyclesExclusive ==
    \A t \in Loops :
        InCycle(t) =>
            /\ writer = t
            /\ readers = {}
            /\ \A u \in Loops \ {t} : ~InCycle(u)

\* Both loops are inside updateStatus with a probe call in flight.
C8_Overlap == pc[Per] = "check" /\ pc[WaitLoop] = "check"

\* C9: before any aggregation cycle has started, IsHealthy returns true and
\* HTTPHandler writes status 200.
C9_FreshCheckHealthy ==
    ~cycled =>
        /\ (pc[Reader] = "ret" /\ rop = "IsHealthy") => ret[Reader]
        /\ (pc[Reader] \in {"ws", "ws_dep", "ret"} /\ rop = "HTTPHandler") =>
               code = StatusOK

\* C10: a RegisterDependency call whose name is already registered returns
\* ErrDependencyAlreadyRegistered at once, leaving the registry and the
\* aggregate as they were and invoking no probe.
C10_DuplicateRejected ==
    [][\A r \in Registrants :
         (/\ pc[r] = "idle"
          /\ pc'[r] # "idle"
          /\ \E i \in 1..Len(Dependencies) : Dependencies[i].Name = rname'[r])
         => (/\ pc'[r] = "ret"
             /\ rerr'[r] = ErrDependencyAlreadyRegistered
             /\ rcalls'[r] = 0
             /\ Dependencies' = Dependencies
             /\ Healthy' = Healthy)]_vars

\* A duplicate call has returned its error; the one record of that name is
\* there, with a level other than the one the rejected call asked for.
C10_Witness ==
    /\ pc["r1"] = "ret"
    /\ rerr["r1"] = ErrDependencyAlreadyRegistered
    /\ Cardinality({i \in 1..Len(Dependencies) : Dependencies[i].Name = rname["r1"]}) = 1
    /\ \E i \in 1..Len(Dependencies) :
          Dependencies[i].Name = rname["r1"] /\ Dependencies[i].Level # rlevel["r1"]

\* A RegisterDependency call with the empty name has been rejected and is
\* about to hand its error to caller r.
EmptyNameRejected(r) == pc[r] = "ret" /\ rname[r] = ""

\* A Dependency lookup has ended without a match.
LookupNotFound == pc[Reader] = "ret" /\ rop = "Dependency" /\ view = 0

\* The step in which r calls RegisterDependency with the empty name returns
\* the error, invokes no probe, adds no record and leaves the aggregate.
EmptyNameCallEffect ==
    \A r \in Registrants :
        (pc[r] = "idle" /\ pc'[r] # "idle" /\ rname'[r] = "")
        => /\ pc'[r] = "ret"
           /\ rerr'[r] # ErrNil
           /\ rcalls'[r] = 0
           /\ Dependencies' = Dependencies
           /\ Healthy' = Healthy

\* C11 (as stated): RegisterDependency with an empty name returns the
\* empty-name error, adds no record, does not invoke the probe and leaves the
\* aggregate unchanged; the error it returns is a different error value from
\* the NotFound error that a lookup of an unregistered name returns.
C11_EmptyNameErrorDistinct ==
    /\ [][EmptyNameCallEffect]_vars
    /\ [](\A r \in Registrants :
            (EmptyNameRejected(r) /\ LookupNotFound) => rerr[r] # derr)

\* C11 (amended): RegisterDependency with an empty name returns an error,
\* adds no record, does not invoke the probe and leaves the aggregate
\* unchanged; the error it returns is ErrNoDependency, the same error value
\* that a lookup of an unregistered name returns.
C11_EmptyNameRejected ==
    /\ [][EmptyNameCallEffect]_vars
    /\ [](\A r \in Registrants :
            /\ EmptyNameRejected(r) => rerr[r] = ErrNoDependency
            /\ (EmptyNameRejected(r) /\ LookupNotFound) => rerr[r] = derr)

\* An empty-name call has been rejected with a record in the registry, next
\* to a lookup of an unregistered name that returned its error.
C11_Witness ==
    /\ EmptyNameRejected("r1")
    /\ rerr["r1"] = ErrNoDependency
    /\ LookupNotFound
    /\ lname \in Names
    /\ derr = ErrNoDependency
    /\ Len(Dependencies) = 1

\* Caller r's RegisterDependency call returns in this step.
RegisterReturns(r) == pc[r] \in {"idle", "append"} /\ pc'[r] = "ret"

\* C12: a successful RegisterDependency(name, level, probe) invokes the probe
\* exactly once, appends exactly one record at the end of the registry, with
\* the given name and level and Healthy equal to that probe result, and
\* returns no error; a failing registration invokes the probe zero times.
\* No other step of the call changes the registry.
C12_SuccessfulRegistration ==
    [][\A r \in Registrants :
         /\ (RegisterReturns(r) /\ rerr'[r] = ErrNil)
            => /\ rcalls'[r] = 1
               /\ Len(Dependencies') = Len(Dependencies) + 1
               /\ SubSeq(Dependencies', 1, Len(Dependencies)) = Dependencies
               /\ Dependencies'[Len(Dependencies')].Name = rname'[r]
               /\ Dependencies'[Len(Dependencies')].Level = rlevel'[r]
               /\ Dependencies'[Len(Dependencies')].Healthy = rseed'[r]
         /\ (RegisterReturns(r) /\ rerr'[r] # ErrNil)
            => /\ rcalls'[r] = 0
               /\ Dependencies' = Dependencies
         /\ (pc'[r] # pc[r] /\ ~RegisterReturns(r))
            => /\ Len(Dependencies') = Len(Dependencies)
               /\ rcalls'[r] <= 1
               /\ pc'[r] = "lock" => rcalls'[r] = 1]_vars

\* A call whose probe returned false has returned nil with its record, seeded
\* unhealthy, at the end of a registry that already held a record.
C12_Witness ==
    /\ pc["r1"] = "ret"
    /\ rerr["r1"] = ErrNil
    /\ rcalls["r1"] = 1
    /\ ~rseed["r1"]
    /\ Len(Dependencies) = 2
    /\ Dependencies[2].Name = rname["r1"]
    /\ Dependencies[2].Level = LevelHard
    /\ ~Dependencies[2].Healthy

\* A Dependency lookup has returned a record.
LookupFound == pc[Reader] = "ret" /\ rop = "Dependency" /\ derr = ErrNil

\* C13: Dependency(name) fails with NotFound exactly when no record with that
\* name is in the registry; every record in the registry is there by a
\* successful RegisterDependency(name, level, probe), and every later
\* Dependency(name) succeeds and returns that name and that level.
C13_LookupFindsRegistered ==
    /\ [][pc[Reader] = "dep_scan" /\ pc'[Reader] = "ret"
          => /\ derr' = ErrNoDependency <=> ~IsRegistered(Dependencies, lname)
             /\ derr' \in {ErrNil, ErrNoDependency}
             /\ derr' = ErrNoDependency <=> view' = 0]_vars
    /\ [](LookupFound
            => /\ view \in 1..Len(Dependencies)
               /\ Dependencies[view].Name = lname
               /\ \A i \in 1..Len(Dependencies) :
                     Dependencies[i].Name = lname
                     => Dependencies[i].Level = Dependencies[view].Level)

\* Two calls registered the same name with different levels and both
\* returned nil; the lookup of that name returned the first record, so the
\* second call's level is not the one a lookup returns.
C13_OtherLevelReturned ==
    /\ LookupFound
    /\ view = 1
    /\ Len(Dependencies) = 2
    /\ Dependencies[2].Name = lname
    /\ Dependencies[2].Level # Dependencies[1].Level
    /\ \A r \in Registrants : pc[r] = "idle"

\* In this step the probe of record i, a Hard record, returns b to a cycle.
HardProbeReturns(i, b) ==
    \E t \in Loops :
        /\ pc[t] = "check"
        /\ pc'[t] # "check"
        /\ idx[t] = i
        /\ Dependencies[i].Level = LevelHard
        /\ Len(probed'[t]) = i
        /\ probed'[t][i] = b

\* C14: after StartCheck, with probes that return and fair scheduling,
\* aggregation cycles complete again and again; if from some point on every
\* Hard probe returns true, the aggregate Healthy eventually becomes true and
\* stays true; if from some point on the probe of some Hard record returns
\* false every time, Healthy eventually becomes false and stays false.
C14_PeriodicLoopLive ==
    /\ (pc[Per] # "off") ~> (pc[Per] = "sleep")
    /\ (/\ <>(pc[Per] # "off")
        /\ <>[][\A i \in 1..MaxDeps : ~HardProbeReturns(i, FALSE)]_vars)
       => <>[]Healthy
    /\ \A i \in 1..MaxDeps :
         (/\ <>(pc[Per] # "off")
          /\ <>(i <= Len(Dependencies) /\ Dependencies[i].Level = LevelHard)
          /\ <>[][~HardProbeReturns(i, TRUE)]_vars)
         => <>[]~Healthy

\* A cycle of the started loop has just completed over a Soft record whose
\* probe failed and a Hard record whose probe passed, and Healthy is true.
C14_Witness ==
    /\ pc[Per] = "sleep"
    /\ Len(probed[Per]) = 2
    /\ Dependencies[1].Level = LevelSoft
    /\ ~probed[Per][1]
    /\ Dependencies[2].Level = LevelHard
    /\ probed[Per][2]
    /\ Healthy

\* C15: HTTPHandler writes status 200 when the aggregate Healthy it reads is
\* true and 503 when it is false, and in both cases the status code is
\* written first and the body second: no part of the body exists before the
\* code is written, and the code written does not change afterwards.
C15_StatusCodeThenBody ==
    /\ [][/\ (rop = "HTTPHandler" /\ pc[Reader] = "healthread" /\ pc'[Reader] # "healthread")
             => /\ Healthy => code' = 200
                /\ ~Healthy => code' = 503
                /\ body' = body
          /\ (rop = "HTTPHandler" /\ code # 0 /\ pc'[Reader] # "idle") => code' = code]_vars
    /\ [](rop = "HTTPHandler"
            => /\ pc[Reader] \in {"ws", "ws_dep", "ret"} <=> code \in {200, 503}
               /\ pc[Reader] \in {"gethealth", "healthread", "ws"}
                  => body = [healthy |-> FALSE, dependencies |-> <<>>])

\* HTTPHandler has written 503 and then a body that lists a record.
C15_Witness ==
    /\ rop = "HTTPHandler"
    /\ pc[Reader] = "ret"
    /\ code = 503
    /\ ~body.healthy
    /\ Len(body.dependencies) = 1

\* C16: the Level and the probe of a record are fixed at registration: no
\* step changes them, neither a step of a package operation nor a write by a
\* caller to the value that Dependency(name) returned.
C16_LevelAndProbeFixed ==
    [][\A i \in 1..Len(Dependencies) :
         /\ Dependencies'[i].Level = Dependencies[i].Level
         /\ Dependencies'[i].check = Dependencies[i].check]_vars

\* RegisterDependency has just returned nil for a record whose Level in the
\* registry is no longer the level of the call.
C16_LevelChanged ==
    /\ pc["r1"] = "ret"
    /\ rerr["r1"] = ErrNil
    /\ Dependencies[Len(Dependencies)].Name = rname["r1"]
    /\ Dependencies[Len(Dependencies)].Level # rlevel["r1"]

\* C17: result mapping of the remote helpers, for every call: a response
\* other than 200 yields (false, nil) from both helpers; a URL that is not an
\* absolute URL, or a failure of the transport, yields an error; a 200
\* response yields (true, nil) from Check200Helper, and from Get the healthy
\* member of the decoded body (an error when the body does not decode), so
\* that Get on the serialization of a Service Check returns its Healthy.
C17_ResultMapping ==
    hreq.op # None =>
        LET u == hreq.url
            o == hreq.outcome
            answered == u = "absolute" /\ o.kind = "response"
        IN  /\ (answered /\ o.status # 200) => hres = [ok |-> FALSE, err |-> ErrNil]
            /\ ~answered => (hres.err # ErrNil /\ ~hres.ok)
            /\ (answered /\ o.status = 200 /\ hreq.op = "Check200Helper")
               => hres = [ok |-> TRUE, err |-> ErrNil]
            /\ (answered /\ o.status = 200 /\ hreq.op = "Get")
               => /\ \A sc \in ServiceChecks :
                       o.body = Encode(sc) => hres = [ok |-> sc.Healthy, err |-> ErrNil]
                  /\ \A b \in BOOLEAN :
                       o.body = [valid |-> TRUE,
                                 members |-> <<[k |-> "healthy", t |-> "bool", b |-> b]>>]
                       => hres = [ok |-> b, err |-> ErrNil]
                  /\ o.body = [valid |-> TRUE, members |-> <<>>]
                       => hres = [ok |-> FALSE, err |-> ErrNil]
                  /\ (~o.body.valid \/ \E i \in 1..Len(o.body.members) :
                          o.body.members[i].k = "healthy" /\ o.body.members[i].t = "string")
                       => (hres.err # ErrNil /\ ~hres.ok)

\* Get has returned (true, nil) for a 200 response carrying the serialization
\* of a healthy Service Check that lists an unhealthy dependency.
C17_Witness ==
    /\ hreq.op = "Get"
    /\ hreq.url = "absolute"
    /\ hreq.outcome.kind = "response"
    /\ hreq.outcome.status = 200
    /\ hreq.outcome.body.valid
    /\ Len(hreq.outcome.body.members) = 3
    /\ hreq.outcome.body.members[3].t = "array"
    /\ hres = [ok |-> TRUE, err |-> ErrNil]

\* The probe results of a cycle, in registry order, hold a failing Hard record.
HardFailureProbed(results) ==
    \E j \in 1..Len(results) : Dependencies[j].Level = LevelHard /\ ~results[j]

\* C18: within one aggregation cycle the records are probed in registration
\* order, each at most once, up to and including the first Hard record whose
\* probe returns false; every probed record has its Healthy overwritten with
\* this cycle's probe result; every record after that first failing Hard
\* record is not probed and keeps its Healthy.  Step by step: a probe is
\* called only for the record right after those probed, and only while no
\* Hard probe has failed; its return overwrites that record alone; no other
\* step changes the Healthy of a record; the cycle ends having probed every
\* record, or on the first failing Hard record.
C18_ProbedInOrderUntilHardFailure ==
    [][/\ \A t \in Loops :
            /\ (pc[t] = "range" /\ pc'[t] = "check")
               => /\ idx[t] = Len(probed[t]) + 1
                  /\ idx[t] <= Len(Dependencies)
                  /\ ~HardFailureProbed(probed[t])
            /\ (pc[t] = "check" /\ pc'[t] # "check")
               => /\ probed'[t] = Append(probed[t], Dependencies'[idx[t]].Healthy)
                  /\ \A j \in 1..Len(Dependencies) :
                        j # idx[t] => Dependencies'[j] = Dependencies[j]
            /\ CycleEnds(t)
               => /\ \A i \in 1..Len(probed'[t]) : Dependencies'[i].Healthy = probed'[t][i]
                  /\ \/ /\ Len(probed'[t]) = Len(Dependencies)
                        /\ ~HardFailureProbed(probed'[t])
                     \/ /\ Len(probed'[t]) >= 1
                        /\ Dependencies[Len(probed'[t])].Level = LevelHard
                        /\ ~probed'[t][Len(probed'[t])]
                        /\ ~HardFailureProbed(probed[t])
       /\ \A i \in 1..Len(Dependencies) :
            Dependencies'[i].Healthy # Dependencies[i].Healthy
            => \E t \in Loops : pc[t] = "check" /\ idx[t] = i /\ pc'[t] # "check"]_vars

\* A cycle has ended on the failing Hard record 1; record 2 was not probed
\* and is still healthy.
C18_Witness ==
    /\ pc[Per] = "sleep"
    /\ probed[Per] = <<FALSE>>
    /\ Len(Dependencies) = 2
    /\ Dependencies[1].Level = LevelHard
    /\ ~Dependencies[1].Healthy
    /\ Dependencies[2].Healthy

\* No health value changes in this step: neither the aggregate nor the
\* Healthy of a record that exists before the step.
HealthUnchanged ==
    /\ Healthy' = Healthy
    /\ \A i \in 1..Len(Dependencies) : Dependencies'[i].Healthy = Dependencies[i].Healthy

\* C19: only the Aggregator changes health values: every step of
\* RegisterDependency (successful or failing), Dependency, IsHealthy,
\* WriteStatus and HTTPHandler leaves the aggregate Healthy and the Healthy of
\* every existing record unchanged, and a step that changes one of them is a
\* step of an aggregation cycle; in particular the step that appends a Hard
\* record seeded unhealthy leaves the aggregate as it was.
C19_OnlyAggregatorChangesHealth ==
    [][/\ \A t \in Registrants \cup {Reader} : pc'[t] # pc[t] => HealthUnchanged
       /\ ~HealthUnchanged => \E t \in Loops : InCycle(t) /\ pc'[t] # pc[t]
       /\ \A r \in Registrants :
            (Len(Dependencies') > Len(Dependencies) /\ pc'[r] # pc[r])
            => /\ Healthy' = Healthy
               /\ Dependencies'[Len(Dependencies')].Healthy = rseed[r]]_vars

\* After a cycle made the aggregate true, a Hard dependency whose probe
\* returned false has been registered, and the aggregate is still true.
C19_Witness ==
    /\ pc["r1"] = "ret"
    /\ rerr["r1"] = ErrNil
    /\ rlevel["r1"] = LevelHard
    /\ ~rseed["r1"]
    /\ Len(Dependencies) = 1
    /\ ~Dependencies[1].Healthy
    /\ cycled
    /\ pc[Per] = "sleep"
    /\ Healthy

\* The record that caller r's call in progress is registering is in the
\* registry.
RecordVisible(r) ==
    \E i \in 1..Len(Dependencies) :
        Dependencies[i].check = r /\ Dependencies[i].Name = rname[r]

\* C20: RegisterDependency never holds the lock while its probe runs: the
\* seeding probe call has returned before the lock is requested; the new
\* record is not visible to an aggregation cycle, a lookup or a snapshot
\* until that call has returned; the append happens only while no
\* aggregation cycle is in progress.
C20_ProbeOutsideLock ==
    /\ [](\A r \in Registrants :
            /\ pc[r] = "seed" => writer # r
            /\ pc[r] \in {"seed", "lock", "append"}
               => /\ ~RecordVisible(r)
                  /\ (pc[Reader] = "ret" /\ rop = "Dependency" /\ view # 0)
                     => ~(Dependencies[view].check = r /\ Dependencies[view].Name = rname[r])
            /\ pc[r] = "append"
               => /\ writer = r
                  /\ readers = {}
                  /\ \A t \in Loops : ~InCycle(t))
    /\ [][\A r \in Registrants :
            /\ (pc'[r] = "lock" /\ pc[r] # "lock") => pc[r] = "seed"
            /\ (pc'[r] = "append" /\ pc[r] # "append") => pc[r] = "lock"
            /\ Len(Dependencies') > Len(Dependencies) => \A t \in Loops : ~InCycle(t)]_vars

\* A call holds the lock for its append, its probe having returned false,
\* while the periodic loop and a lookup of the same name wait for the lock.
C20_Witness ==
    /\ pc["r1"] = "append"
    /\ writer = "r1"
    /\ ~rseed["r1"]
    /\ cycled
    /\ pc[Per] = "update"
    /\ pc[Reader] = "dep_rlock"
    /\ lname = rname["r1"]

\* C21: the wait-until-healthy loop outlives a timed-out caller and stops
\* only on health: the loop terminates exactly in the step in which it reads
\* aggregate Healthy = true after one of its cycles, and neither the timeout
\* nor the caller's return moves it; once terminated it takes no further
\* step (no probe call); and while it has not read true it keeps running
\* cycles, also after the timeout: from its sleep it reaches, by another
\* cycle, its next read of the aggregate.
C21_WaitLoopStopsOnlyOnHealth ==
    /\ [][/\ (pc'[WaitLoop] = "exit" /\ pc[WaitLoop] # "exit")
             => (pc[WaitLoop] = "healthread" /\ Healthy)
          /\ (pc[WaitLoop] = "healthread" /\ pc'[WaitLoop] # "healthread")
             => (pc'[WaitLoop] = "exit" <=> Healthy)
          /\ pc[WaitLoop] = "exit"
             => (pc'[WaitLoop] = "exit" /\ probed'[WaitLoop] = probed[WaitLoop])
          /\ (ctx' # ctx \/ pc'[WaitCaller] # pc[WaitCaller])
             => (pc[WaitLoop] \in {"off", "healthread"} \/ pc'[WaitLoop] = pc[WaitLoop])]_vars
    /\ (pc[WaitLoop] = "sleep") ~> (pc[WaitLoop] = "healthread")

\* The caller has returned false after the timeout, and the loop it started
\* is inside a later cycle, waiting for a probe to return.
C21_Witness ==
    /\ pc[WaitCaller] = "returned"
    /\ ctx = "timeout"
    /\ ~ret[WaitCaller]
    /\ pc[WaitLoop] = "check"
    /\ Len(probed[WaitLoop]) = 1

\* A probe invoked by an aggregation cycle has not returned.
ProbeInFlight == \E t \in Loops : pc[t] = "check"

\* In this step another cycle starts, a RegisterDependency append completes,
\* or a goroutine takes the lock for reading.
LockTaken ==
    \/ \E t \in Loops : pc[t] = "update" /\ pc'[t] = "range"
    \/ Len(Dependencies') > Len(Dependencies)
    \/ \E t \in {Reader, WaitLoop, WaitCaller} : t \in readers' \ readers

\* In this step an IsHealthy, Dependency or HTTPHandler call returns.
ReaderCallReturns ==
    /\ rop \in {"IsHealthy", "Dependency", "HTTPHandler"}
    /\ pc[Reader] # "ret"
    /\ pc'[Reader] = "ret"

\* C22: while a probe invoked by an aggregation cycle has not returned, no
\* other operation that needs the lock makes progress: no other cycle
\* starts, no RegisterDependency append completes, no goroutine gets the
\* lock, and no IsHealthy, Dependency or HTTPHandler call returns;
\* consequently a WaitForDependencies caller whose timeout has fired cannot
\* return until that probe returns.
C22_ProbeInFlightBlocks ==
    [][ProbeInFlight
        => /\ ~LockTaken
           /\ ~ReaderCallReturns
           /\ ~(pc[WaitCaller] # "returned" /\ pc'[WaitCaller] = "returned")]_vars

\* An HTTPHandler call that read the aggregate before the cycle began has
\* written its whole response while the cycle's first probe is in flight.
C22_HandlerReturnedDuringProbe ==
    /\ pc[Per] = "check"
    /\ Len(probed[Per]) = 0
    /\ rop = "HTTPHandler"
    /\ pc[Reader] = "ret"
    /\ Len(body.dependencies) = 1
    /\ code = 200
    /\ pc[WaitLoop] = "off"

\* C23: within one HTTPHandler response the status code and the body agree:
\* the response has status 200 exactly when the healthy field of its body is
\* true and status 503 exactly when it is false, also when an aggregation
\* cycle completes between the read for the status code and the
\* serialization of the body.
C23_StatusMatchesBody ==
    (rop = "HTTPHandler" /\ pc[Reader] \in {"ws_dep", "ret"})
    => /\ code = 200 <=> body.healthy
       /\ code = 503 <=> ~body.healthy

\* A complete response with status 200 and a body whose healthy field is
\* false, listing the Hard record whose probe failed in between.
C23_HealthyStatusUnhealthyBody ==
    /\ rop = "HTTPHandler"
    /\ pc[Reader] = "ret"
    /\ code = 200
    /\ ~body.healthy
    /\ Len(body.dependencies) = 1
    /\ body.dependencies[1].Level = LevelHard
    /\ ~body.dependencies[1].Healthy

\* C24: at the instant an aggregation cycle completes and releases the lock,
\* the aggregate agrees with the records: Healthy is true exactly when no
\* Hard record has recorded Healthy = false, and when Healthy is true every
\* record's recorded Healthy is the result its probe returned in that cycle.
C24_AggregateAgreesAtCycleEnd ==
    [][\A t \in Loops :
         CycleEnds(t)
         => /\ writer' = None
            /\ Healthy' <=> ~\E i \in 1..Len(Dependencies') :
                                /\ Dependencies'[i].Level = LevelHard
                                /\ ~Dependencies'[i].Healthy
            /\ Healthy' => /\ Len(probed'[t]) = Len(Dependencies')
                           /\ \A i \in 1..Len(Dependencies') :
                                 Dependencies'[i].Healthy = probed'[t][i]]_vars

\* In the revision of health.go:1-242 a cycle over a passing Hard record and
\* a failing Soft record has just completed with the aggregate true.
C24_Witness ==
    /\ variant = V_HealthA
    /\ pc[Per] = "sleep"
    /\ writer = None
    /\ Healthy
    /\ probed[Per] = <<TRUE, FALSE>>
    /\ Dependencies[1].Level = LevelHard
    /\ Dependencies[2].Level = LevelSoft
    /\ ~Dependencies[2].Healthy

\* ------------------------------------------------------------------ C25
\* Every operation of the package that takes mu, each in a goroutine of its
\* own: the periodic loop, the wait loop and its caller, a goroutine that
\* registers the first name at either level (its later calls are rejected
\* by the duplicate scan, before Lock), and a goroutine calling IsHealthy,
\* HTTPHandler and Dependency.
NextFree ==
    \/ StartCheck
    \/ \E t \in Loops : LoopStep(t)
    \/ \E level \in Levels : RegisterDependency("r1", NameTable[1], level)
    \/ RegisterRest("r1")
    \/ WaitStep
    \/ IsHealthy
    \/ HTTPHandler
    \/ GetHealthRLock(Reader)
    \/ ReaderRead
    \/ WriteStatusBegin
    \/ WriteStatusDep
    \/ Dependency(NameTable[1])
    \/ DependencyRLock
    \/ DependencyScan
    \/ ReaderReturn

SpecFree == InitPart000 /\ [][NextFree]_vars

\* The goroutines of SpecFree.
LockUsers == {Per, WaitLoop, WaitCaller, Reader, "r1"}

\* t is inside s.mu.Lock(): updateStatus or RegisterDependency.
WantsLock(t) ==
    \/ t \in Loops /\ pc[t] = "update"
    \/ t \in Registrants /\ pc[t] = "lock"

\* t is inside s.mu.RLock(): getHealth or Dependency.
WantsRLock(t) == pc[t] \in {"gethealth", "dep_rlock"}

\* t holds mu, exclusive or shared.
HoldsLock(t) == writer = t \/ t \in readers

\* t cannot proceed: mu is not available to it, or it is the caller of
\* WaitForDependencies on <-ctx.Done() with the context still open.
Blocked(t) ==
    \/ WantsLock(t) /\ ~CanLock
    \/ WantsRLock(t) /\ ~CanRLock
    \/ t = WaitCaller /\ pc[t] = "wait" /\ ~CtxDone(ctx)

\* The code a goroutine runs between taking mu and releasing it.
Release(t) ==
    \/ t \in Loops /\ (UpdateRange(t) \/ \E b \in BOOLEAN : UpdateCheck(t, b))
    \/ t \in Registrants /\ RegisterAppend(t)
    \/ t = WaitLoop /\ WaitLoopRead
    \/ t = WaitCaller /\ WaitReturn
    \/ t = Reader /\ (ReaderRead \/ DependencyScan)

\* A call of Lock or RLock returning in t.
Acquire(t) ==
    \/ t \in Loops /\ UpdateLock(t)
    \/ t \in Registrants /\ RegisterLock(t)
    \/ GetHealthRLock(t)
    \/ t = Reader /\ DependencyRLock

\* SpecFree with probes that return and goroutines that run when they can:
\* WF on the code each goroutine runs between Lock/RLock and the unlock.
FairSpecFree ==
    /\ SpecFree
    /\ \A t \in LockUsers : WF_vars(Release(t))

\* t is inside Lock or RLock.
Wants(t) == WantsLock(t) \/ WantsRLock(t)

\* C25: the package is free of deadlock and of starvation on mu.  (1) In
\* every reachable state in which a goroutine is blocked in Lock or RLock,
\* some goroutine holds the lock and can run its code up to the unlock, so
\* never is every goroutine blocked.  (2) A goroutine leaves Lock or RLock
\* only as a holder of the lock.  (3) Every goroutine that requests the lock
\* acquires it: with the lock of package sync, which grants a request that
\* can be granted again and again (SF on the goroutine's Lock/RLock), no
\* goroutine stays inside Lock or RLock for ever.
C25_DeadlockFree ==
    /\ [](\A t \in LockUsers :
             Wants(t) /\ Blocked(t)
                 => \E h \in LockUsers \ {t} :
                        HoldsLock(h) /\ ~Blocked(h) /\ ENABLED <<Release(h)>>_vars)
    /\ [][\A t \in LockUsers : Wants(t) /\ ~Wants(t)' => HoldsLock(t)']_vars
    /\ \A t \in LockUsers : SF_vars(Acquire(t)) => []<>~Wants(t)

\* A probe of the wait loop's cycle is in flight under the exclusive lock
\* while the periodic loop is blocked in Lock, and the reader and the
\* timed-out caller are blocked in RLock.
C25_Witness ==
    /\ writer = WaitLoop
    /\ pc[WaitLoop] = "check"
    /\ Blocked(Per)
    /\ Blocked(Reader)
    /\ pc[WaitCaller] = "gethealth"
    /\ Blocked(WaitCaller)
====
